---- MODULE Spec2Model ----
(***************************************************************************)
(* The external scanner of tree-sitter-treejure (src/src/scanner.c, the    *)
(* tree_sitter_treejure_* scanner of lines 216-428) and the literal tokens *)
(* of its grammar (grammar.js).                                            *)
(*                                                                         *)
(* The source text is a sequence of code points (integers).  Position p    *)
(* of the lexer means "the next code point is src[p]"; lookahead is 0 at   *)
(* the end of the input, as TSLexer reports it.  A call of                 *)
(* lexer->advance(lexer, skip) moves the position by one.                  *)
(*                                                                         *)
(* The grammar's rules are modelled as a parser over a text's tokens: a    *)
(* stack of the rules begun, one action per kind of token, and the tree    *)
(* of an accepted text.                                                    *)
(***************************************************************************)
EXTENDS Integers, Sequences, FiniteSets, TLC

VARIABLES
  src,            \* the source text, a sequence of code points
  ctype,          \* what <ctype.h>/<wctype.h> answer outside their defined range
  pos,            \* TSLexer: position of the lookahead code point
  result_symbol,  \* TSLexer: lexer->result_symbol, kept between calls
  res,            \* outcome of the last call of the scan function
  pos2,           \* a second lexer over the same text: its position,
  result_symbol2, \*   its result_symbol
  res2,           \*   and the outcome of its last call
  toks,           \* the parser's input: the tokens of a text, in order
  tpos,           \* the index of the parser's next token
  stack,          \* the parser's stack: the nodes it has begun, outermost first
  pstatus         \* "parsing", "accepted" or "error"

lvars == <<src, ctype, pos, result_symbol, res, pos2, result_symbol2, res2>>
pvars == <<toks, tpos, stack, pstatus>>
vars == <<src, ctype, pos, result_symbol, res, pos2, result_symbol2, res2,
          toks, tpos, stack, pstatus>>

-----------------------------------------------------------------------------
(* Code points.                                                            *)

CP ==
  [ tab |-> 9, nl |-> 10, vt |-> 11, ff |-> 12, cr |-> 13, sp |-> 32,
    dquote |-> 34, hash |-> 35, quote |-> 39, lparen |-> 40, rparen |-> 41,
    plus |-> 43, comma |-> 44, minus |-> 45, dot |-> 46, slash |-> 47,
    d0 |-> 48, d1 |-> 49, d2 |-> 50, d3 |-> 51, d4 |-> 52, d5 |-> 53,
    d6 |-> 54, d7 |-> 55, d8 |-> 56, d9 |-> 57,
    colon |-> 58, semi |-> 59, query |-> 63, at |-> 64,
    E |-> 69, F |-> 70, M |-> 77, N |-> 78, R |-> 82, X |-> 88, Z |-> 90,
    lbrack |-> 91, backslash |-> 92, rbrack |-> 93, caret |-> 94,
    underscore |-> 95, bquote |-> 96,
    a |-> 97, b |-> 98, c |-> 99, d |-> 100, e |-> 101, f |-> 102,
    g |-> 103, i |-> 105, k |-> 107, l |-> 108, m |-> 109, n |-> 110,
    o |-> 111, p |-> 112, r |-> 114, s |-> 115, t |-> 116, u |-> 117,
    w |-> 119, x |-> 120, y |-> 121,
    lbrace |-> 123, rbrace |-> 125, tilde |-> 126,
    nbsp |-> 160, shy |-> 173,
    Amacron |-> 256,     \* U+0100: low 8 bits are 0
    Uring |-> 366,       \* U+016E: low 8 bits are 'n'
    ogham |-> 5760, mvs |-> 6158, emspace |-> 8195, linesep |-> 8232,
    parasep |-> 8233, nnbsp |-> 8239, mmsp |-> 8287, ideosp |-> 12288 ]

(* enum TokenType *)
TokenType ==
  << "NUMBER", "SYMBOL", "KEYWORD",
     "QUOTE_MARKER", "SYNTAX_QUOTE_MARKER", "DEREF_MARKER", "META_MARKER",
     "UNQUOTE_MARKER", "UNQUOTE_SPLICING_MARKER",
     "STRING_EXTERNAL", "ERRONEOUS_STRING",
     "NIL_LITERAL", "BOOL_TRUE", "BOOL_FALSE",
     "CHARACTER_EXTERNAL", "ERRONEOUS_CHARACTER" >>

Kinds == { TokenType[j] : j \in 1..Len(TokenType) }

(* The externals the grammar declares beyond the scanner's enum. *)
GrammarOnlyExternals ==
  { "ERRONEOUS_KEYWORD", "ERRONEOUS_SYMBOL", "ERRONEOUS_NUMBER" }

-----------------------------------------------------------------------------
(* Classifier tables.                                                      *)

(* The whitespace table without the comma.                                 *)
is_clojure_whitespace_no_comma(c) ==
  \/ c = CP.sp \/ c = CP.tab \/ c = CP.cr \/ c = CP.nl
  \/ c = CP.ff \/ c = CP.vt
  \/ c = 160 \/ c = 173
  \/ (c >= 8192 /\ c <= 8202)
  \/ c = 8232 \/ c = 8233
  \/ c = 8239 \/ c = 8287 \/ c = 12288 \/ c = 5760 \/ c = 6158
is_clojure_whitespace(c) ==
  \/ c = CP.sp \/ c = CP.tab \/ c = CP.cr \/ c = CP.nl
  \/ c = CP.comma \/ c = CP.ff \/ c = CP.vt
  \/ c = 160 \/ c = 173
  \/ (c >= 8192 /\ c <= 8202)
  \/ c = 8232 \/ c = 8233
  \/ c = 8239 \/ c = 8287 \/ c = 12288 \/ c = 5760 \/ c = 6158

is_macro(c) ==
  c \in { CP.dquote, CP.colon, CP.semi, CP.quote, CP.at,
          CP.caret, CP.bquote, CP.tilde, CP.lparen, CP.rparen,
          CP.lbrack, CP.rbrack, CP.lbrace, CP.rbrace, CP.backslash,
          CP.hash }

is_macro_terminating(c) ==
  IF ~is_macro(c) THEN FALSE
  ELSE c # CP.hash /\ c # CP.quote /\ c # CP.colon

(* A number that ends where an identifier ends.                            *)
is_number_end_terminating(c) ==
  c = 0 \/ is_clojure_whitespace(c) \/ is_macro_terminating(c)
is_number_end(c) == c = 0 \/ is_clojure_whitespace(c) \/ is_macro(c)

is_token_end(c) == c = 0 \/ is_clojure_whitespace(c) \/ is_macro_terminating(c)

(* <ctype.h> in the "C" locale.  isdigit and isxdigit are defined for the  *)
(* values of unsigned char and EOF only; the scanner passes them int32     *)
(* code points, so for a code point above 255 the answer is whatever the   *)
(* C library's table lookup yields: the variable ctype holds that answer.  *)
(* iswalnum is defined for every code point, and its answer for a          *)
(* non-ASCII letter depends on the locale, which ctype holds as well.      *)
isdigit(c) ==
  IF c <= 255 THEN c >= 48 /\ c <= 57 ELSE "digit" \in ctype

isxdigit(c) ==
  IF c <= 255
  THEN (c >= 48 /\ c <= 57) \/ (c >= 65 /\ c <= 70) \/ (c >= 97 /\ c <= 102)
  ELSE "xdigit" \in ctype

iswalnum(c) ==
  IF c <= 127
  THEN (c >= 48 /\ c <= 57) \/ (c >= 65 /\ c <= 90) \/ (c >= 97 /\ c <= 122)
  ELSE "alnum" \in ctype

-----------------------------------------------------------------------------
(* The lexer's lookahead at position p.                                    *)
lookahead(p) == IF p <= Len(src) THEN src[p] ELSE 0

(* while (is_clojure_whitespace(lexer->lookahead)) lexer->advance(lexer, true); *)
RECURSIVE skip_whitespace(_)
skip_whitespace(p) ==
  IF is_clojure_whitespace(lookahead(p)) THEN skip_whitespace(p + 1) ELSE p

(* number_loop with the sign of an exponent forgotten.                     *)
RECURSIVE number_loop_unsigned_exponent(_, _, _, _)
number_loop_unsigned_exponent(p, has_digits, is_hex, is_radix) ==
  LET c == lookahead(p) IN
  IF is_number_end(c) THEN [ok |-> has_digits, p |-> p]
  ELSE IF isdigit(c)
       THEN number_loop_unsigned_exponent(p + 1, TRUE, is_hex, is_radix)
  ELSE IF is_hex /\ isxdigit(c)
       THEN number_loop_unsigned_exponent(p + 1, TRUE, is_hex, is_radix)
  ELSE IF (c = CP.r \/ c = CP.R) /\ has_digits /\ ~is_radix
       THEN number_loop_unsigned_exponent(p + 1, has_digits, is_hex, TRUE)
  ELSE IF is_radix /\ iswalnum(c)
       THEN number_loop_unsigned_exponent(p + 1, TRUE, is_hex, is_radix)
  ELSE IF c \in { CP.dot, CP.slash, CP.e, CP.E, CP.M, CP.N }
       THEN number_loop_unsigned_exponent(p + 1, has_digits, is_hex, is_radix)
  ELSE [ok |-> FALSE, p |-> p]

(* finish_number: the loop of lines 278-287.  The result is the value      *)
(* returned and the position the lexer is left at.                         *)
RECURSIVE number_loop(_, _, _, _)
number_loop(p, has_digits, is_hex, is_radix) ==
  LET c == lookahead(p) IN
  IF is_number_end(c) THEN [ok |-> has_digits, p |-> p]
  ELSE IF isdigit(c) THEN number_loop(p + 1, TRUE, is_hex, is_radix)
  ELSE IF is_hex /\ isxdigit(c) THEN number_loop(p + 1, TRUE, is_hex, is_radix)
  ELSE IF (c = CP.r \/ c = CP.R) /\ has_digits /\ ~is_radix
       THEN number_loop(p + 1, has_digits, is_hex, TRUE)
  ELSE IF is_radix /\ iswalnum(c) THEN number_loop(p + 1, TRUE, is_hex, is_radix)
  ELSE IF c \in { CP.dot, CP.slash, CP.e, CP.E, CP.M, CP.N, CP.plus, CP.minus }
       THEN number_loop(p + 1, has_digits, is_hex, is_radix)
  ELSE [ok |-> FALSE, p |-> p]

(* finish_number advancing over the place of the x without reading it.     *)
finish_number_blind_prefix(p, has_digits) ==
  IF ~has_digits /\ lookahead(p) = CP.d0
  THEN number_loop(p + 2, TRUE, TRUE, FALSE)
  ELSE number_loop(p, has_digits, FALSE, FALSE)
finish_number(p, has_digits) ==
  IF ~has_digits /\ lookahead(p) = CP.d0
  THEN IF lookahead(p + 1) = CP.x \/ lookahead(p + 1) = CP.X
       THEN number_loop(p + 2, TRUE, TRUE, FALSE)
       ELSE number_loop(p + 1, TRUE, FALSE, FALSE)
  ELSE number_loop(p, has_digits, FALSE, FALSE)

(* buffer[i++] = (char)lexer->lookahead: the store keeps the low 8 bits.   *)
(* No code point of the model's inputs that reaches the buffer has a low   *)
(* byte of 128 or more, so the signedness of char plays no part.           *)
narrow(c) == c % 256

(* i < 31 in the loop of line 305: char buffer[32] keeps room for the NUL. *)
NameCap == 31

(* The C string a NUL-terminated buffer holds: its bytes before the first 0. *)
RECURSIVE c_string(_)
c_string(buf) ==
  IF buf = <<>> \/ Head(buf) = 0 THEN <<>>
  ELSE <<Head(buf)>> \o c_string(Tail(buf))

strcmp_eq(buf, word) == c_string(buf) = word

CharacterNames ==
  { <<CP.n, CP.e, CP.w, CP.l, CP.i, CP.n, CP.e>>,
    <<CP.s, CP.p, CP.a, CP.c, CP.e>>,
    <<CP.t, CP.a, CP.b>>,
    <<CP.f, CP.o, CP.r, CP.m, CP.f, CP.e, CP.e, CP.d>>,
    <<CP.b, CP.a, CP.c, CP.k, CP.s, CP.p, CP.a, CP.c, CP.e>>,
    <<CP.r, CP.e, CP.t, CP.u, CP.r, CP.n>> }

(* Lines 305-308: read the word into the buffer, at most NameCap bytes.    *)
RECURSIVE character_loop(_, _)
character_loop(q, buf) ==
  IF ~is_token_end(lookahead(q)) /\ Len(buf) < NameCap
  THEN character_loop(q + 1, Append(buf, narrow(lookahead(q))))
  ELSE [p |-> q, buffer |-> buf]

(* Lines 311-323: the kind of the word the buffer holds.                   *)
classify_character(buf) ==
  LET i == Len(buf) IN
  IF \E w \in CharacterNames : strcmp_eq(buf, w) THEN "CHARACTER_EXTERNAL"
  ELSE IF i = 5 /\ buf[1] = CP.u
       THEN IF \A j \in 2..5 : isxdigit(buf[j])
            THEN "CHARACTER_EXTERNAL" ELSE "ERRONEOUS_CHARACTER"
  ELSE IF buf[1] = CP.o /\ i > 1 /\ i < 5
       THEN IF \A j \in 2..i : buf[j] >= CP.d0 /\ buf[j] <= CP.d7
            THEN "CHARACTER_EXTERNAL" ELSE "ERRONEOUS_CHARACTER"
  ELSE "ERRONEOUS_CHARACTER"

(* scan_character_type, called with the lookahead on the backslash: the    *)
(* kind returned and the position the lexer is left at.                    *)
scan_character_type_guarded(p) ==
  IF is_token_end(lookahead(p + 1))
  THEN [kind |-> "ERRONEOUS_CHARACTER", p |-> p + 1]
  ELSE LET w == character_loop(p + 2, <<narrow(lookahead(p + 1))>>) IN
       [kind |-> classify_character(w.buffer), p |-> w.p]
scan_character_type(p) ==
  IF lookahead(p + 1) = 0 THEN [kind |-> "ERRONEOUS_CHARACTER", p |-> p + 1]
  ELSE IF is_token_end(lookahead(p + 2))
       THEN [kind |-> "CHARACTER_EXTERNAL", p |-> p + 2]
  ELSE LET w == character_loop(p + 2, <<narrow(lookahead(p + 1))>>) IN
       [kind |-> classify_character(w.buffer), p |-> w.p]

(* scan_identifier stopping at a number boundary instead.                  *)
RECURSIVE scan_identifier_number_end(_, _)
scan_identifier_number_end(p, char_count) ==
  IF ~is_number_end(lookahead(p))
  THEN scan_identifier_number_end(p + 1, char_count + 1)
  ELSE [ok |-> char_count > 0, p |-> p]

(* scan_identifier: the value returned and the position the lexer is left  *)
(* at; result_symbol is set to result_type exactly when ok.                *)
RECURSIVE scan_identifier(_, _)
scan_identifier(p, char_count) ==
  IF ~is_token_end(lookahead(p)) THEN scan_identifier(p + 1, char_count + 1)
  ELSE [ok |-> char_count > 0, p |-> p]

(* string_loop with the escape applied to the backslash itself: the code   *)
(* point after a backslash is read as if nothing preceded it.              *)
RECURSIVE string_loop_no_escape(_, _)
string_loop_no_escape(p, escaped) ==
  IF lookahead(p) = 0 THEN [kind |-> "ERRONEOUS_STRING", p |-> p]
  ELSE IF lookahead(p) = CP.dquote THEN [kind |-> "STRING_EXTERNAL", p |-> p + 1]
  ELSE string_loop_no_escape(p + 1, FALSE)

(* scan_string_type, lines 341-347, after the opening quote is consumed.   *)
RECURSIVE string_loop(_, _)
string_loop(p, escaped) ==
  IF lookahead(p) = 0 THEN [kind |-> "ERRONEOUS_STRING", p |-> p]
  ELSE IF escaped THEN string_loop(p + 1, FALSE)
  ELSE IF lookahead(p) = CP.backslash THEN string_loop(p + 1, TRUE)
  ELSE IF lookahead(p) = CP.dquote THEN [kind |-> "STRING_EXTERNAL", p |-> p + 1]
  ELSE string_loop(p + 1, FALSE)

scan_string_type(p) == string_loop(p + 1, FALSE)

(* scan_exact_word: consumes the code points that match word, one by one.  *)
RECURSIVE exact_word_loop(_, _, _)
exact_word_loop(p, word, i) ==
  IF i > Len(word) THEN [ok |-> is_token_end(lookahead(p)), p |-> p]
  ELSE IF lookahead(p) # word[i] THEN [ok |-> FALSE, p |-> p]
  ELSE exact_word_loop(p + 1, word, i + 1)

scan_exact_word(p, word) == exact_word_loop(p, word, 1)

WordNil == <<CP.n, CP.i, CP.l>>
WordTrue == <<CP.t, CP.r, CP.u, CP.e>>
WordFalse == <<CP.f, CP.a, CP.l, CP.s, CP.e>>

-----------------------------------------------------------------------------
(* tree_sitter_treejure_external_scanner_scan.                             *)
(* The outcome of a call: the value returned (matched), the value of       *)
(* lexer->result_symbol at the return (rs is its value at the call), the   *)
(* position after the code points advanced over with skip = true (start,   *)
(* where a returned token begins) and the position the lexer is left at.   *)

Outcome(matched, kind, start, end) ==
  [matched |-> matched, kind |-> kind, start |-> start, end |-> end]

(* The catch-all with scan_identifier not setting result_symbol.           *)
scan_symbol_unset(start, p, first, valid, rs) ==
  IF "SYMBOL" \in valid /\ ~is_macro(first) /\ ~isdigit(first)
  THEN LET id == scan_identifier(p, 0) IN
       Outcome(id.ok, rs, start, id.p)
  ELSE Outcome(FALSE, rs, start, p)

(* Lines 422-427: the catch-all, with the lexer at p.                      *)
scan_symbol(start, p, first, valid, rs) ==
  IF "SYMBOL" \in valid /\ ~is_macro(first) /\ ~isdigit(first)
  THEN LET id == scan_identifier(p, 0) IN
       Outcome(id.ok, IF id.ok THEN "SYMBOL" ELSE rs, start, id.p)
  ELSE Outcome(FALSE, rs, start, p)

(* Lines 418-420, then the catch-all.                                      *)
scan_number(start, p, first, valid, rs) ==
  IF isdigit(first) /\ "NUMBER" \in valid
  THEN LET num == finish_number(p, FALSE) IN
       IF num.ok THEN Outcome(TRUE, "NUMBER", start, num.p)
       ELSE scan_symbol(start, num.p, first, valid, rs)
  ELSE scan_symbol(start, p, first, valid, rs)

(* Lines 410-417: the lexer is on the sign.                                *)
scan_sign(start, p, valid, rs) ==
  LET num == IF isdigit(lookahead(p + 1)) /\ "NUMBER" \in valid
             THEN finish_number(p + 1, TRUE)
             ELSE [ok |-> FALSE, p |-> p + 1]
  IN IF num.ok THEN Outcome(TRUE, "NUMBER", start, num.p)
     ELSE IF "SYMBOL" \in valid
          THEN LET id == scan_identifier(num.p, 1) IN
               Outcome(id.ok, IF id.ok THEN "SYMBOL" ELSE rs, start, id.p)
     ELSE Outcome(FALSE, rs, start, num.p)

(* Lines 403-407: the lexer is on the colon.                               *)
scan_keyword(start, p, rs) ==
  LET id == IF lookahead(p + 1) = CP.colon
            THEN scan_identifier(p + 2, 2)
            ELSE scan_identifier(p + 1, 1)
  IN Outcome(id.ok, IF id.ok THEN "KEYWORD" ELSE rs, start, id.p)

(* Lines 402-427: after the exact words, with the lexer at p.              *)
scan_rest(start, p, first, valid, rs) ==
  IF first = CP.colon /\ "KEYWORD" \in valid THEN scan_keyword(start, p, rs)
  ELSE IF first = CP.plus \/ first = CP.minus THEN scan_sign(start, p, valid, rs)
  ELSE scan_number(start, p, first, valid, rs)

(* Lines 398-400: at most one of the three words is tried, the one first   *)
(* selects; a failed try leaves the lexer after the code points it matched. *)
scan_literals(start, first, valid, rs) ==
  LET try == IF first = CP.n /\ "NIL_LITERAL" \in valid
               THEN [kind |-> "NIL_LITERAL", w |-> scan_exact_word(start, WordNil)]
             ELSE IF first = CP.t /\ "BOOL_TRUE" \in valid
               THEN [kind |-> "BOOL_TRUE", w |-> scan_exact_word(start, WordTrue)]
             ELSE IF first = CP.f /\ "BOOL_FALSE" \in valid
               THEN [kind |-> "BOOL_FALSE", w |-> scan_exact_word(start, WordFalse)]
             ELSE [kind |-> rs, w |-> [ok |-> FALSE, p |-> start]]
  IN IF try.w.ok THEN Outcome(TRUE, try.kind, start, try.w.p)
     ELSE scan_rest(start, try.w.p, first, valid, rs)

(* Lines 392-395.                                                          *)
SimpleMarkers ==
  { <<CP.quote, "QUOTE_MARKER">>, <<CP.bquote, "SYNTAX_QUOTE_MARKER">>,
    <<CP.at, "DEREF_MARKER">>, <<CP.caret, "META_MARKER">> }

(* Lines 382-389: the lexer is on the tilde.                               *)
scan_unquote(start, valid, rs) ==
  IF lookahead(start + 1) = CP.at /\ "UNQUOTE_SPLICING_MARKER" \in valid
  THEN Outcome(TRUE, "UNQUOTE_SPLICING_MARKER", start, start + 2)
  ELSE IF "UNQUOTE_MARKER" \in valid
       THEN Outcome(TRUE, "UNQUOTE_MARKER", start, start + 1)
  ELSE Outcome(FALSE, rs, start, start + 1)

scan(p, valid, rs) ==
  LET start == skip_whitespace(p)
      first == lookahead(start)
  IN IF first = 0 THEN Outcome(FALSE, rs, start, start)
     ELSE IF first = CP.dquote
             /\ ("STRING_EXTERNAL" \in valid \/ "ERRONEOUS_STRING" \in valid)
       THEN LET str == scan_string_type(start) IN
            Outcome(TRUE, str.kind, start, str.p)
     ELSE IF first = CP.backslash
             /\ ("CHARACTER_EXTERNAL" \in valid \/ "ERRONEOUS_CHARACTER" \in valid)
       THEN LET chr == scan_character_type(start) IN
            Outcome(TRUE, chr.kind, start, chr.p)
     ELSE IF first = CP.tilde THEN scan_unquote(start, valid, rs)
     ELSE IF \E mk \in SimpleMarkers : first = mk[1] /\ mk[2] \in valid
       THEN LET mk == CHOOSE m \in SimpleMarkers : first = m[1] IN
            Outcome(TRUE, mk[2], start, start + 1)
     ELSE scan_literals(start, first, valid, rs)

-----------------------------------------------------------------------------
(* The literal tokens of the grammar, which the generated lexer reads      *)
(* itself: the delimiters and the '#' prefixes.                            *)
InternalTokens ==
  { <<CP.lparen>>, <<CP.rparen>>, <<CP.lbrack>>, <<CP.rbrack>>,
    <<CP.lbrace>>, <<CP.rbrace>>,
    <<CP.hash, CP.lbrace>>, <<CP.hash, CP.underscore>>, <<CP.hash, CP.quote>>,
    <<CP.hash, CP.lparen>>, <<CP.hash, CP.query>>,
    <<CP.hash, CP.query, CP.at>>, <<CP.hash>>, <<CP.hash, CP.dquote>> }

(* The text from position p reads tok.                                     *)
StartsWith(p, tok) ==
  /\ p + Len(tok) - 1 <= Len(src)
  /\ \A j \in 1..Len(tok) : src[p + j - 1] = tok[j]

-----------------------------------------------------------------------------
(* Bounds of the model and the inputs it draws.                            *)

MaxLen == 3       \* longest text of the exhaustive family
MaxBody == 3      \* longest keyword body; a string body has one more
MaxDigits == 2    \* longest digit run of a generated number
MaxRun == 33      \* longest character-literal run (the cap is NameCap)

SeqsOf(S, lo, hi) == UNION { [1..k -> S] : k \in lo..hi }

(* Every text of at most MaxLen code points over a mixed alphabet.         *)
Sigma ==
  { CP.sp, CP.dquote, CP.backslash, CP.tilde, CP.lparen, CP.d1, CP.a }

ShortTexts == SeqsOf(Sigma, 0, MaxLen)

(* What may follow a token. *)
Tails == { <<>>, <<CP.sp>>, <<CP.rparen>>, <<CP.hash, CP.a>> }

(* Numbers, written as the reader's documentation writes them.             *)
Signs == { <<>>, <<CP.plus>>, <<CP.minus>> }
Digits == SeqsOf({ CP.d0, CP.d1 }, 1, MaxDigits)
Exponents ==
  { <<m>> \o sg \o <<CP.d1>> : m \in { CP.e, CP.E }, sg \in Signs }
IntegerTexts ==
  { sg \o ds \o sx : sg \in Signs, ds \in Digits, sx \in { <<>>, <<CP.N>> } }
RatioTexts ==
  { sg \o ds \o <<CP.slash>> \o dn :
      sg \in Signs, ds \in Digits, dn \in { <<CP.d2>>, <<CP.d1, CP.d0>> } }
FloatTexts ==
  { sg \o ds \o fr \o ex :
      sg \in Signs, ds \in { <<CP.d1>>, <<CP.d1, CP.d0>> },
      fr \in { <<>>, <<CP.dot, CP.d5>> }, ex \in Exponents \cup { <<>> } }
HexTexts ==
  { <<CP.d0, m>> \o hs :
      m \in { CP.x, CP.X }, hs \in SeqsOf({ CP.d1, CP.F, CP.a }, 1, 2) }
RadixTexts ==
  { ds \o <<m>> \o bs :
      ds \in { <<CP.d2>>, <<CP.d3, CP.d6>> }, m \in { CP.r, CP.R },
      bs \in SeqsOf({ CP.d1, CP.d0, CP.Z }, 1, 2) }
NumberTexts ==
  { nm \o tl :
      nm \in IntegerTexts \cup RatioTexts \cup FloatTexts \cup HexTexts
             \cup RadixTexts,
      tl \in Tails }

(* Malformed and borderline numbers, those of the documentation included.  *)
OddNumberTexts ==
  { <<CP.d1, CP.dot, CP.d2, CP.dot, CP.d3>>,
    <<CP.d1, CP.slash, CP.d2, CP.slash, CP.d3>>,
    <<CP.d1, CP.dot, CP.d2, CP.slash, CP.d3>>,
    <<CP.plus, CP.d1, CP.x>>, <<CP.minus, CP.d1, CP.x, CP.rparen>>,
    <<CP.d1, CP.x, CP.sp, CP.d2>>, <<CP.d1, CP.Uring>>,
    <<CP.minus, CP.d0, CP.x, CP.d1, CP.F>>,
    <<CP.d1, CP.N, CP.d2>>, <<CP.d1, CP.M, CP.d5>>, <<CP.d1, CP.M>>,
    <<CP.d1, CP.plus, CP.d2>>, <<CP.d1, CP.d2, CP.minus>>,
    <<CP.d1, CP.hash>>, <<CP.d1, CP.quote>>, <<CP.d1, CP.colon, CP.a>>,
    <<CP.d2, CP.r, CP.Uring>>, <<CP.d0, CP.x>>, <<CP.d0, CP.x, CP.g>>,
    <<CP.d1, CP.e>>, <<CP.d1, CP.r>>, <<CP.N>>, <<CP.dot, CP.d5>> }

(* Keywords and symbols: a prefix, a body, a tail.                         *)
IdentifierTexts ==
  { pre \o bd \o tl :
      pre \in { <<CP.colon>>, <<CP.a>> },
      bd \in SeqsOf({ CP.a, CP.hash, CP.colon }, 0, MaxBody),
      tl \in { <<>>, <<CP.rparen>>, <<CP.quote, CP.a, CP.sp, CP.a>> } }
    \cup
  { <<CP.lparen, CP.f, CP.o, CP.o, CP.rparen>>,
    <<CP.colon, CP.f, CP.o, CP.o, CP.hash, CP.b, CP.a, CP.r>>,
    <<CP.colon, CP.colon, CP.f, CP.o, CP.o>>,
    <<CP.Uring, CP.a, CP.lparen>>, <<CP.a, CP.Uring>>,
    <<CP.caret, CP.colon, CP.t, CP.sp, CP.lbrack, CP.d1, CP.rbrack>>,
    <<CP.hash, CP.underscore, CP.a, CP.sp, CP.b>>,
    <<CP.bquote, CP.a>>, <<CP.quote, CP.a>>, <<CP.tilde, CP.at, CP.a>>,
    <<CP.nbsp, CP.tab, CP.colon, CP.a, CP.emspace, CP.b>>,
    <<CP.ideosp, CP.comma, CP.d1, CP.dot, CP.d5, CP.mvs>>,
    <<CP.nl, CP.shy, CP.dquote, CP.a, CP.dquote, CP.linesep, CP.t, CP.r,
      CP.u, CP.e, CP.ogham>> }

(* Strings: the opening quote and a body.                                  *)
StringTexts ==
  { <<CP.dquote>> \o bd :
      bd \in SeqsOf({ CP.a, CP.backslash, CP.dquote }, 0, MaxBody + 1) }
    \cup
  { <<CP.dquote, CP.a, CP.b, CP.backslash, CP.dquote, CP.c, CP.dquote>>,
    <<CP.sp, CP.dquote, CP.a, CP.dquote, CP.sp, CP.dquote, CP.b>> }

(* The words nil, true and false: their prefixes and their extensions.     *)
Prefixes(w) == { SubSeq(w, 1, k) : k \in 1..Len(w) }
WordTexts ==
  { pre \o ext \o tl :
      pre \in Prefixes(WordNil) \cup Prefixes(WordTrue) \cup Prefixes(WordFalse),
      ext \in { <<>>, <<CP.l, CP.y>>, <<CP.hash>>, <<CP.quote>> },
      tl \in { <<>>, <<CP.rparen>>, <<CP.sp>> } }

(* Character literals: the backslash, a word, a tail.                      *)
RunOf(c, k) == [j \in 1..k |-> c]
Replace(w, k, c) == [w EXCEPT ![k] = c]
CharacterWords ==
  CharacterNames
    \cup { SubSeq(w, 1, Len(w) - 1) : w \in CharacterNames }
    \cup { w \o <<CP.x>> : w \in CharacterNames }
    \cup { Replace(w, k, w[k] + 256) :
             w \in { <<CP.n, CP.e, CP.w, CP.l, CP.i, CP.n, CP.e>>,
                     <<CP.t, CP.a, CP.b>> },
             k \in { 1, 3 } }
    \cup { <<CP.t, CP.a, CP.b, CP.Amacron, CP.x>>, <<CP.Uring>>,
           <<CP.o, CP.d1 + 256>>, <<CP.u, CP.d0, CP.d0, CP.e, CP.d9>>,
           <<CP.a, CP.b, CP.c>>, <<CP.o, CP.d1, CP.d0, CP.d1>>,
           <<CP.comma>>, <<CP.lparen>>, <<CP.a>>, <<CP.lparen, CP.a>>,
           <<CP.a, CP.quote, CP.b>> }
    \cup { <<CP.u>> \o hs : hs \in SeqsOf({ CP.d0, CP.g }, 3, 5) }
    \cup { <<CP.o>> \o os : os \in SeqsOf({ CP.d7, CP.d8 }, 0, 4) }
    \cup { RunOf(CP.a, k) : k \in (NameCap - 1)..MaxRun }
CharacterTexts ==
  { <<CP.backslash>> \o w \o tl :
      w \in CharacterWords, tl \in { <<>>, <<CP.rparen>>, <<CP.sp, CP.a>> } }
    \cup { <<CP.backslash>>, <<CP.sp, CP.backslash>> }

Inputs ==
  ShortTexts \cup NumberTexts \cup OddNumberTexts \cup IdentifierTexts
    \cup StringTexts \cup WordTexts \cup CharacterTexts

(* The candidate sets a call is given.  While the parser recovers from an  *)
(* error every kind is valid; where a form may start the grammar asks for  *)
(* the kinds of its rules; the other sets are single rules' and the sets   *)
(* the documentation speaks of.                                            *)
FormKinds ==
  Kinds \ { "ERRONEOUS_STRING" }

CandidateSets ==
  { Kinds, FormKinds, {},
    { "SYMBOL" }, { "NUMBER" }, { "KEYWORD" }, { "KEYWORD", "SYMBOL" },
    { "NUMBER", "SYMBOL" },
    { "STRING_EXTERNAL" }, { "ERRONEOUS_STRING" },
    { "CHARACTER_EXTERNAL" }, { "ERRONEOUS_CHARACTER" },
    { "NIL_LITERAL", "BOOL_TRUE", "BOOL_FALSE" },
    { "NIL_LITERAL", "BOOL_TRUE", "BOOL_FALSE", "SYMBOL" },
    { "UNQUOTE_MARKER" }, { "UNQUOTE_SPLICING_MARKER" },
    { "QUOTE_MARKER", "SYNTAX_QUOTE_MARKER", "DEREF_MARKER", "META_MARKER" } }

-----------------------------------------------------------------------------
(* The grammar (grammar.js).  A token is written as the text of its        *)
(* literal, or as the name of the node an external token makes.  A node    *)
(* is a record: its type (the grammar's rule), the index of its first      *)
(* token, and its children by field: head (the metadata's value, the tag), *)
(* kids (the forms of a collection, the key and value of a pair, the       *)
(* discards a reader macro has absorbed) and target.                       *)

Node(type, at) ==
  [type |-> type, at |-> at, head |-> <<>>, kids |-> <<>>, target |-> <<>>]

LiteralTypes ==
  { "nil", "boolean", "number", "string", "regex", "character" }
IdentifierTypes == { "symbol", "keyword" }
CollectionTypes ==
  { "list_literal", "vector_literal", "map_literal", "set_literal" }
(* The reader macros of the shape marker, repeat(discard), target.         *)
PrefixTypes ==
  { "quote", "syntax_quote", "var_quote", "deref", "unquote",
    "unquote_splicing" }
ReaderMacroTypes ==
  PrefixTypes \cup { "fn_literal", "reader_conditional", "tagged_literal" }
FormBaseTypes ==
  LiteralTypes \cup CollectionTypes \cup IdentifierTypes \cup ReaderMacroTypes
VisibleTypes == FormBaseTypes \cup { "with_metadata" }
FormTypes ==
  VisibleTypes \cup { "discard", "invalid_character", "invalid_number" }
(* The rules that end with field('target', ...).                           *)
TargetTypes == PrefixTypes \cup { "tagged_literal", "discard", "with_metadata" }

(* The tokens that are a node of their own.                                *)
AtomTokens ==
  LiteralTypes \cup IdentifierTypes \cup { "invalid_character", "invalid_number" }
(* The token that begins a rule, and the rule it begins.                   *)
MarkerRule ==
  "'" :> "quote" @@ "`" :> "syntax_quote" @@ "#'" :> "var_quote"
  @@ "@" :> "deref" @@ "~" :> "unquote" @@ "~@" :> "unquote_splicing"
  @@ "#" :> "tagged_literal" @@ "#?" :> "reader_conditional"
  @@ "#?@" :> "reader_conditional"
OpenRule ==
  "(" :> "list_literal" @@ "[" :> "vector_literal" @@ "{" :> "map_literal"
  @@ "#{" :> "set_literal" @@ "#(" :> "fn_literal"
CloseOf ==
  "list_literal" :> ")" @@ "vector_literal" :> "]" @@ "map_literal" :> "}"
  @@ "set_literal" :> "}" @@ "fn_literal" :> ")"
(* The rules of the shape open, repeat(_form), close, and the top.         *)
FormListTypes ==
  { "source", "list_literal", "vector_literal", "set_literal", "fn_literal" }
MetadataValueTypes == { "keyword", "symbol", "map_literal" }

(* field('target', ...) taking any form.                                   *)
is_target_any_form(nd) == nd.type \in FormTypes
(* field('target', $._visible_form): what a reader macro, a discard or a   *)
(* metadata takes as its target.                                           *)
is_target(nd) == nd.type \in VisibleTypes

(* A map that takes forms one by one.                                      *)
map_take_any_form(stk, nd) ==
  LET top == stk[Len(stk)] IN
  Append(SubSeq(stk, 1, Len(stk) - 1), [top EXCEPT !.kids = Append(@, nd)])
(* map_literal: '{', repeat($.pair), '}': a form met in a map begins a     *)
(* pair, as its key.                                                       *)
map_take(stk, nd) ==
  Append(stk, [Node("pair", nd.at) EXCEPT !.kids = <<nd>>])

(* The node nd is complete: the rule on top of the stack takes it as its   *)
(* next child, and is reduced in turn when that completes it.  The result  *)
(* is the new stack, or <<>> when the rule has no place for the node.      *)
RECURSIVE reduce(_, _)
reduce(stk, nd) ==
  IF stk = <<>> THEN <<>>
  ELSE
  LET top == stk[Len(stk)]
      rest == SubSeq(stk, 1, Len(stk) - 1)
      child == Append(rest, [top EXCEPT !.kids = Append(@, nd)])
  IN
  CASE top.type \in FormListTypes ->
         IF nd.type \in FormTypes THEN child ELSE <<>>
    [] top.type = "map_literal" ->
         IF nd.type = "pair" THEN child
         ELSE IF nd.type \in FormTypes THEN map_take(stk, nd)
         ELSE <<>>
    [] top.type = "pair" ->
         IF nd.type \in FormTypes
         THEN reduce(rest, [top EXCEPT !.kids = Append(@, nd)])
         ELSE <<>>
    [] top.type = "metadata" ->
         IF nd.type \in MetadataValueTypes
         THEN Append(rest, [Node("with_metadata", top.at) EXCEPT !.head = <<nd>>])
         ELSE <<>>
    [] top.type = "reader_conditional" ->
         IF nd.type = "list_literal"
         THEN reduce(rest, [top EXCEPT !.kids = <<nd>>])
         ELSE <<>>
    [] top.type = "tagged_literal" /\ top.head = <<>> ->
         IF nd.type = "symbol"
         THEN Append(rest, [top EXCEPT !.head = <<nd>>])
         ELSE <<>>
    [] OTHER ->
         IF is_target(nd) THEN reduce(rest, [top EXCEPT !.target = <<nd>>])
         ELSE IF nd.type = "discard" THEN child
         ELSE IF top.type = "with_metadata" /\ nd.type \in FormTypes
              THEN reduce(reduce(rest, top), nd)
         ELSE <<>>

(* field('target', optional($._visible_form)): a metadata on top of the    *)
(* stack is reduced without a target when the next token begins no form.   *)
RECURSIVE reduce_with_metadata(_)
reduce_with_metadata(stk) ==
  IF stk # <<>> /\ stk[Len(stk)].type = "with_metadata"
  THEN reduce_with_metadata(reduce(SubSeq(stk, 1, Len(stk) - 1), stk[Len(stk)]))
  ELSE stk

(* The forms at the top level of an accepted text.                         *)
tree == stack[1].kids

(* The code points the C library's character tables do not cover.          *)
HasHighCodePoint(text) ==
  \E j \in 1..Len(text) : text[j] > 255 /\ ~is_clojure_whitespace(text[j])

-----------------------------------------------------------------------------
(* The state machine: a host that lexes one text with one or two lexers.   *)

NoCall ==
  [from |-> 0, valid |-> {}, rs |-> "NUMBER", matched |-> FALSE,
   kind |-> "NUMBER", start |-> 0, end |-> 0]

(* The record of a call made at position p with result_symbol holding rs.  *)
Called(p, valid, rs, o) ==
  [from |-> p, valid |-> valid, rs |-> rs, matched |-> o.matched,
   kind |-> o.kind, start |-> o.start, end |-> o.end]

(* create returns NULL and deserialize reads nothing: the scanner has no   *)
(* state of its own.  A lexer starts at the text's first code point with   *)
(* result_symbol zeroed, which is NUMBER.  The parser has nothing to read. *)
Init ==
  /\ src \in Inputs
  /\ ctype \in IF HasHighCodePoint(src)
               THEN SUBSET { "digit", "xdigit", "alnum" } ELSE { {} }
  /\ pos = 1
  /\ result_symbol = TokenType[1]
  /\ res = NoCall
  /\ pos2 = 1
  /\ result_symbol2 = TokenType[1]
  /\ res2 = NoCall
  /\ toks = <<>>
  /\ tpos = 1
  /\ stack = <<Node("source", 0)>>
  /\ pstatus = "parsing"

(* One call of the scan function on the first lexer.  The parser calls it  *)
(* where a token may start: at the start of the text and after a token,    *)
(* not where a call has just refused.                                      *)
Scan(valid) ==
  LET o == scan(pos, valid, result_symbol) IN
  /\ res = NoCall \/ res.matched
  /\ res' = Called(pos, valid, result_symbol, o)
  /\ pos' = o.end
  /\ result_symbol' = o.kind
  /\ UNCHANGED <<src, ctype, pos2, result_symbol2, res2>>
  /\ UNCHANGED pvars

(* The generated lexer reads one of the grammar's literal tokens, after    *)
(* the whitespace the grammar lists as extras.                             *)
InternalToken(tok) ==
  LET p == skip_whitespace(pos) IN
  /\ StartsWith(p, tok)
  /\ pos' = p + Len(tok)
  /\ res' = NoCall
  /\ UNCHANGED <<src, ctype, result_symbol, pos2, result_symbol2, res2>>
  /\ UNCHANGED pvars

Next ==
  \/ \E valid \in CandidateSets : Scan(valid)
  \/ \E tok \in InternalTokens : InternalToken(tok)

Spec == Init /\ [][Next]_vars

(* Two lexers over one text.  serialize writes 0 bytes and deserialize     *)
(* reads none, so a parse that is resumed at a position starts there with  *)
(* a scanner that carries nothing over, and with a zeroed result_symbol,   *)
(* while the lexer that came the whole way holds what its last token left. *)
Restart ==
  /\ res = NoCall \/ res.matched
  /\ res2 = NoCall /\ pos2 = 1 /\ pos > 1
  /\ pos2' = pos
  /\ result_symbol2' = TokenType[1]
  /\ res2' = NoCall
  /\ UNCHANGED <<src, ctype, pos, result_symbol, res>>
  /\ UNCHANGED pvars

(* The first lexer alone, until the second one is started.                 *)
ScanAlone(valid) ==
  /\ pos2 = 1 /\ res2 = NoCall
  /\ Scan(valid)

(* Both lexers are at one position and are given one candidate set.        *)
ScanBoth(valid) ==
  LET o1 == scan(pos, valid, result_symbol)
      o2 == scan(pos2, valid, result_symbol2)
  IN /\ pos = pos2 /\ pos > 1
     /\ res = NoCall \/ res.matched
     /\ res' = Called(pos, valid, result_symbol, o1)
     /\ pos' = o1.end
     /\ result_symbol' = o1.kind
     /\ res2' = Called(pos2, valid, result_symbol2, o2)
     /\ pos2' = o2.end
     /\ result_symbol2' = o2.kind
     /\ UNCHANGED <<src, ctype>>
     /\ UNCHANGED pvars

NextTwo ==
  \/ \E valid \in CandidateSets : ScanAlone(valid)
  \/ \E tok \in InternalTokens : InternalToken(tok) /\ pos2 = 1 /\ res2 = NoCall
  \/ Restart
  \/ \E valid \in CandidateSets : ScanBoth(valid)

SpecTwo == Init /\ [][NextTwo]_vars

-----------------------------------------------------------------------------
(* The parser of the grammar, reading a text's tokens.                     *)

MaxTokens == 4     \* longest token sequence of the exhaustive family
MaxChain == 3      \* longest chain of discard markers
MaxMapForms == 5   \* most forms between the braces of a generated map

ParseSigma ==
  { "number", "keyword", "symbol", "#_", "'", "^", "#", "{", "}" }
(* k discard markers and then n forms, alone and in a vector.              *)
ChainTexts ==
  LET chains == { RunOf("#_", k) \o RunOf("number", n) :
                    k \in 1..MaxChain, n \in 0..(MaxChain + 1) }
  IN chains \cup { <<"[">> \o c \o <<"]">> : c \in chains }
MapTexts ==
  { <<"{">> \o RunOf("number", m) \o <<"}">> : m \in 0..MaxMapForms }
  \cup { <<"{", "keyword", "number", "#_", "symbol", "keyword", "number", "}">>,
         <<"{", "#_", "symbol", "keyword", "number", "}">>,
         <<"{", "keyword", "#_", "symbol", "number", "}">>,
         <<"{", "keyword", "number", "#_", "symbol", "}">>,
         <<"{", "keyword", "#_", "number", "}">>,
         <<"^", "{", "keyword", "number", "}", "symbol">>,
         <<"#{", "number", "number", "number", "}">> }
MacroTexts ==
  { <<"^", "keyword", "[", "number", "number", "]">>,
    <<"^", "keyword", "#_", "symbol", "symbol">>,
    <<"[", "^", "keyword", "]">>,
    <<"[", "'", "]">>,
    <<"(", "@", "#_", "symbol", ")">>,
    <<"'", "#_", "number", "#_", "number", "number", "number">>,
    <<"`", "(", "symbol", "~", "symbol", "~@", "symbol", ")">>,
    <<"@", "#'", "symbol">>,
    <<"#", "symbol", "#_", "number", "string">>,
    <<"#", "symbol", "#_", "number">>,
    <<"#?", "(", "keyword", "number", ")">>,
    <<"#?@", "(", ")">>,
    <<"#?", "[", "]">>,
    <<"#(", "symbol", "number", ")">>,
    <<"(", "nil", "boolean", "character", "regex", "]">>,
    <<"^", "keyword", "invalid_character", "number">>,
    <<"'", "invalid_character">>,
    <<"^", "symbol", "^", "keyword", "'", "^", "keyword">> }
TokenInputs ==
  SeqsOf(ParseSigma, 0, MaxTokens) \cup ChainTexts \cup MapTexts \cup MacroTexts

(* A parse starts on the first token with the top rule, source, begun.     *)
InitParse ==
  /\ src = <<>>
  /\ ctype = {}
  /\ pos = 1
  /\ result_symbol = TokenType[1]
  /\ res = NoCall
  /\ pos2 = 1
  /\ result_symbol2 = TokenType[1]
  /\ res2 = NoCall
  /\ toks \in TokenInputs
  /\ tpos = 1
  /\ stack = <<Node("source", 0)>>
  /\ pstatus = "parsing"

(* The parser has read a token and its stack has become stk.               *)
Shifted(stk) ==
  /\ stack' = stk
  /\ pstatus' = IF stk = <<>> THEN "error" ELSE "parsing"
  /\ tpos' = tpos + 1
  /\ UNCHANGED toks
  /\ UNCHANGED lvars

AtToken(S) == pstatus = "parsing" /\ tpos <= Len(toks) /\ toks[tpos] \in S

(* A token that is a node of its own: a literal, an identifier, an         *)
(* erroneous token.                                                        *)
ShiftAtom ==
  /\ AtToken(AtomTokens)
  /\ Shifted(reduce(stack, Node(toks[tpos], tpos)))

(* The marker of a reader macro: the rule is begun.                        *)
ShiftMarker ==
  /\ AtToken(DOMAIN MarkerRule)
  /\ Shifted(Append(stack, Node(MarkerRule[toks[tpos]], tpos)))

(* '#_' begins a discard.                                                  *)
ShiftDiscard ==
  /\ AtToken({ "#_" })
  /\ Shifted(Append(stack, Node("discard", tpos)))

(* The meta marker begins a metadata.                                      *)
ShiftMeta ==
  /\ AtToken({ "^" })
  /\ Shifted(Append(stack, Node("metadata", tpos)))

(* An opening delimiter begins a collection or a function literal.         *)
Open ==
  /\ AtToken(DOMAIN OpenRule)
  /\ Shifted(Append(stack, Node(OpenRule[toks[tpos]], tpos)))

(* A closing delimiter ends the rule on top of the stack, which has to be  *)
(* the rule that its opening delimiter began.                              *)
Close ==
  /\ AtToken({ ")", "]", "}" })
  /\ LET stk == reduce_with_metadata(stack)
         top == stk[Len(stk)]
     IN IF /\ stk # <<>>
           /\ top.type \in DOMAIN CloseOf
           /\ CloseOf[top.type] = toks[tpos]
        THEN Shifted(reduce(SubSeq(stk, 1, Len(stk) - 1), top))
        ELSE Shifted(<<>>)

(* The end of the tokens: the text is accepted when source is the only     *)
(* rule left open.                                                         *)
Finish ==
  /\ pstatus = "parsing" /\ tpos = Len(toks) + 1
  /\ LET stk == reduce_with_metadata(stack) IN
     /\ stack' = stk
     /\ pstatus' = IF Len(stk) = 1 THEN "accepted" ELSE "error"
  /\ UNCHANGED <<toks, tpos>>
  /\ UNCHANGED lvars

NextParse ==
  \/ ShiftAtom
  \/ ShiftMarker
  \/ ShiftDiscard
  \/ ShiftMeta
  \/ Open
  \/ Close
  \/ Finish

SpecParse == InitParse /\ [][NextParse]_vars

-----------------------------------------------------------------------------
(* The documentation's tables and the shapes its properties speak of,      *)
(* written from its text, for the properties below to refer to.            *)

DocWhitespace ==
  { 32, 9, 13, 10, 12, 11, 44, 160, 173, 8232, 8233, 8239, 8287, 12288,
    5760, 6158 } \cup 8192..8202
DocMacro ==
  { CP.dquote, CP.colon, CP.semi, CP.quote, CP.at, CP.caret, CP.bquote,
    CP.tilde, CP.lparen, CP.rparen, CP.lbrack, CP.rbrack, CP.lbrace,
    CP.rbrace, CP.backslash, CP.hash }
DocNonTerminating == { CP.hash, CP.quote, CP.colon }
DocNumberBoundary(c) == c = 0 \/ c \in DocWhitespace \/ c \in DocMacro
DocTokenBoundary(c) ==
  c = 0 \/ c \in DocWhitespace \/ c \in (DocMacro \ DocNonTerminating)

(* The first position from p on whose code point is a boundary.            *)
NumberBoundaryFrom(p) ==
  CHOOSE q \in p..(Len(src) + 1) :
    /\ DocNumberBoundary(lookahead(q))
    /\ \A r \in p..(q - 1) : ~DocNumberBoundary(lookahead(r))
TokenBoundaryFrom(p) ==
  CHOOSE q \in p..(Len(src) + 1) :
    /\ DocTokenBoundary(lookahead(q))
    /\ \A r \in p..(q - 1) : ~DocTokenBoundary(lookahead(r))

AsciiDigit(c) == c >= 48 /\ c <= 57
IsCall == res.from > 0
First == lookahead(res.start)
(* The text of the positions from..to-1.                                   *)
Text(from, to) == SubSeq(src, from, to - 1)

-----------------------------------------------------------------------------
(* C1.  No rewind: a call that reports NoMatch has advanced the lexer over *)
(* leading whitespace only.  (The code does not keep to this.)             *)
C1_NoMatchConsumesNothing ==
  (IsCall /\ ~res.matched) => res.end = res.start

(* C2.  A returned token's kind is a member of the candidate set of the    *)
(* call.  (The code does not keep to this.)                                *)
C2_KindInCandidateSet ==
  (IsCall /\ res.matched) => res.kind \in res.valid

(* C3.  A digit-initial run, up to the next number boundary, with more     *)
(* than one float/ratio marker scans as one ErroneousNumber token over the *)
(* whole run.  (The code returns Number for it.)                           *)
MarkerCount(from, to) ==
  Cardinality({ q \in from..(to - 1) : src[q] \in { CP.dot, CP.slash } })
C3_ManyMarkersIsErroneousNumber ==
  ( /\ IsCall /\ "NUMBER" \in res.valid
    /\ AsciiDigit(First)
    /\ MarkerCount(res.start, NumberBoundaryFrom(res.start)) > 1 )
  => ( /\ res.matched /\ res.kind = "ERRONEOUS_NUMBER"
       /\ res.end = NumberBoundaryFrom(res.start) )

(* C4.  Once the number sub-scanner is entered (a digit, or a sign and a   *)
(* digit, with Number requested) and it meets a code point illegal in a    *)
(* number, the call returns ErroneousNumber over the run up to the number  *)
(* boundary, never Symbol and never NoMatch.  (The code backs out.)        *)
EntersNumber ==
  /\ IsCall /\ "NUMBER" \in res.valid
  /\ \/ AsciiDigit(First)
     \/ First \in { CP.plus, CP.minus } /\ AsciiDigit(lookahead(res.start + 1))
NumberRefused ==
  IF AsciiDigit(First) THEN ~finish_number(res.start, FALSE).ok
  ELSE ~finish_number(res.start + 1, TRUE).ok
C4_NumericErrorCommits ==
  (EntersNumber /\ NumberRefused)
  => ( /\ res.matched /\ res.kind = "ERRONEOUS_NUMBER"
       /\ res.end = NumberBoundaryFrom(res.start) )

(* C5.  A well-formed numeric literal followed by a number boundary scans, *)
(* when Number is requested, as one Number token whose span is the         *)
(* literal's text: integers d+ with an optional sign and an optional N,    *)
(* ratios and floats with an optional sign, hex 0x.. and radix ..r..       *)
AllDigits(t) == Len(t) >= 1 /\ \A j \in 1..Len(t) : AsciiDigit(t[j])
HexDigit(c) ==
  AsciiDigit(c) \/ (c >= 65 /\ c <= 70) \/ (c >= 97 /\ c <= 102)
AsciiAlnum(c) ==
  AsciiDigit(c) \/ (c >= 65 /\ c <= 90) \/ (c >= 97 /\ c <= 122)
From(t, k) == SubSeq(t, k, Len(t))
IsInteger(t) ==
  \/ AllDigits(t)
  \/ Len(t) >= 2 /\ t[Len(t)] = CP.N /\ AllDigits(SubSeq(t, 1, Len(t) - 1))
IsRatio(t) ==
  \E k \in 2..(Len(t) - 1) :
    t[k] = CP.slash /\ AllDigits(SubSeq(t, 1, k - 1)) /\ AllDigits(From(t, k + 1))
IsExponent(t) ==
  /\ Len(t) >= 2 /\ t[1] \in { CP.e, CP.E }
  /\ \/ AllDigits(From(t, 2))
     \/ t[2] \in { CP.plus, CP.minus } /\ AllDigits(From(t, 3))
IsFraction(t) ==
  /\ Len(t) >= 2 /\ t[1] = CP.dot
  /\ \E m \in 2..Len(t) :
       AllDigits(SubSeq(t, 2, m)) /\ (m = Len(t) \/ IsExponent(From(t, m + 1)))
IsFloat(t) ==
  \E k \in 1..(Len(t) - 1) :
    AllDigits(SubSeq(t, 1, k))
      /\ (IsFraction(From(t, k + 1)) \/ IsExponent(From(t, k + 1)))
IsHex(t) ==
  /\ Len(t) >= 3 /\ t[1] = CP.d0 /\ t[2] \in { CP.x, CP.X }
  /\ \A j \in 3..Len(t) : HexDigit(t[j])
IsRadix(t) ==
  \E k \in 1..(Len(t) - 2) :
    /\ AllDigits(SubSeq(t, 1, k)) /\ t[k + 1] \in { CP.r, CP.R }
    /\ \A j \in (k + 2)..Len(t) : AsciiAlnum(t[j])
IsWellFormedNumber(t) ==
  IF t # <<>> /\ t[1] \in { CP.plus, CP.minus }
  THEN IsInteger(Tail(t)) \/ IsRatio(Tail(t)) \/ IsFloat(Tail(t))
  ELSE IsInteger(t) \/ IsRatio(t) \/ IsFloat(t) \/ IsHex(t) \/ IsRadix(t)

(* Where the token of a call starts: after the whitespace at res.from.     *)
DocStart ==
  CHOOSE q \in res.from..(Len(src) + 1) :
    /\ lookahead(q) \notin DocWhitespace
    /\ \A r \in res.from..(q - 1) : lookahead(r) \in DocWhitespace

WellFormedNumberCall ==
  /\ IsCall /\ "NUMBER" \in res.valid
  /\ IsWellFormedNumber(Text(DocStart, NumberBoundaryFrom(DocStart)))

C5_WellFormedNumberIsNumber ==
  WellFormedNumberCall
  => ( /\ res.matched /\ res.kind = "NUMBER"
       /\ res.start = DocStart /\ res.end = NumberBoundaryFrom(DocStart) )

(* A float with a signed exponent, followed by text, was scanned as Number. *)
C5_Witness ==
  /\ WellFormedNumberCall /\ res.matched /\ res.kind = "NUMBER"
  /\ \E q \in res.start..(res.end - 2) :
       src[q] \in { CP.e, CP.E } /\ src[q + 1] = CP.minus
  /\ res.end <= Len(src)

(* C6.  Exact-word fallback: an identifier that starts with n, t or f and  *)
(* is not nil, true or false up to its token boundary scans, with the      *)
(* three literals and Symbol requested, as one Symbol over the whole       *)
(* identifier.  (The code seeds the identifier scan with 0, so a proper    *)
(* prefix of a word at the boundary is refused.)                           *)
C6_ExactWordFallsBackToSymbol ==
  ( /\ IsCall
    /\ { "NIL_LITERAL", "BOOL_TRUE", "BOOL_FALSE", "SYMBOL" } \subseteq res.valid
    /\ lookahead(DocStart) \in { CP.n, CP.t, CP.f }
    /\ Text(DocStart, TokenBoundaryFrom(DocStart))
         \notin { WordNil, WordTrue, WordFalse } )
  => ( /\ res.matched /\ res.kind = "SYMBOL"
       /\ res.start = DocStart /\ res.end = TokenBoundaryFrom(DocStart) )

(* C7.  A call at ':' with Keyword requested returns one Keyword token     *)
(* that runs to the next token boundary, so a hash, a quote or a colon     *)
(* inside it does not end it; and every Symbol or Keyword token ends right *)
(* before the first token boundary after its start, a macro-terminating    *)
(* character such as a parenthesis included.                               *)
C7_KeywordExtent ==
  /\ (IsCall /\ "KEYWORD" \in res.valid /\ lookahead(DocStart) = CP.colon)
     => ( /\ res.matched /\ res.kind = "KEYWORD"
          /\ res.start = DocStart /\ res.end = TokenBoundaryFrom(DocStart) )
  /\ (IsCall /\ res.matched /\ res.kind \in { "SYMBOL", "KEYWORD" })
     => ( /\ res.start = DocStart /\ res.end = TokenBoundaryFrom(DocStart)
          /\ res.end > res.start )

(* A keyword with a hash and a colon inside it was scanned up to a ')'.    *)
C7_Witness ==
  /\ IsCall /\ res.matched /\ res.kind = "KEYWORD"
  /\ \E q \in (res.start + 1)..(res.end - 1) : src[q] = CP.hash
  /\ \E q \in (res.start + 2)..(res.end - 1) : src[q] = CP.colon
  /\ lookahead(res.end) = CP.rparen

(* C8.  Character literals: a backslash, one code point and a token        *)
(* boundary is Character; a longer run is Character iff it is one of the   *)
(* six names, u and 4 hex digits, or o and 1 to 3 octal digits; any other  *)
(* run is ErroneousCharacter over the whole run.  (The code classifies the *)
(* low bytes of at most 31 code points.)                                   *)
IsUnicodeEscape(t) ==
  Len(t) = 5 /\ t[1] = CP.u /\ \A j \in 2..5 : HexDigit(t[j])
IsOctalEscape(t) ==
  /\ Len(t) >= 2 /\ Len(t) <= 4 /\ t[1] = CP.o
  /\ \A j \in 2..Len(t) : t[j] >= CP.d0 /\ t[j] <= CP.d7
DocNames ==
  { <<110, 101, 119, 108, 105, 110, 101>>, <<115, 112, 97, 99, 101>>,
    <<116, 97, 98>>, <<102, 111, 114, 109, 102, 101, 101, 100>>,
    <<98, 97, 99, 107, 115, 112, 97, 99, 101>>,
    <<114, 101, 116, 117, 114, 110>> }
DocCharacterKind(t) ==
  IF Len(t) = 1 \/ t \in DocNames \/ IsUnicodeEscape(t) \/ IsOctalEscape(t)
  THEN "CHARACTER_EXTERNAL" ELSE "ERRONEOUS_CHARACTER"
CharacterCall ==
  /\ IsCall /\ lookahead(DocStart) = CP.backslash
  /\ "CHARACTER_EXTERNAL" \in res.valid \/ "ERRONEOUS_CHARACTER" \in res.valid
  /\ lookahead(DocStart + 1) # 0
C8_CharacterClassification ==
  CharacterCall
  => ( /\ res.matched
       /\ res.end = TokenBoundaryFrom(DocStart + 2)
       /\ res.kind = DocCharacterKind(Text(DocStart + 1, TokenBoundaryFrom(DocStart + 2))) )

(* C9.  Strings: from '"' the call returns String ending just after the    *)
(* first '"' that no active escape precedes, a backslash escaping exactly  *)
(* the code point after it; when the text ends first, also right after a   *)
(* backslash, it returns ErroneousString up to the end of the text.        *)
(* A quote is escaped iff an odd number of backslashes stands right before *)
(* it inside the string.                                                   *)
BackslashesBefore(q, open) ==
  Cardinality({ r \in (open + 1)..(q - 1) :
                  \A t \in r..(q - 1) : src[t] = CP.backslash })
ClosingQuotes(open) ==
  { q \in (open + 1)..Len(src) :
      src[q] = CP.dquote /\ BackslashesBefore(q, open) % 2 = 0 }
Least(S) == CHOOSE q \in S : \A r \in S : q <= r
StringCall ==
  /\ IsCall /\ lookahead(DocStart) = CP.dquote
  /\ "STRING_EXTERNAL" \in res.valid \/ "ERRONEOUS_STRING" \in res.valid
C9_StringScan ==
  StringCall
  => /\ res.matched /\ res.start = DocStart
     /\ IF ClosingQuotes(DocStart) # {}
        THEN res.kind = "STRING_EXTERNAL"
             /\ res.end = Least(ClosingQuotes(DocStart)) + 1
        ELSE res.kind = "ERRONEOUS_STRING" /\ res.end = Len(src) + 1

(* A string with an escaped quote inside it was scanned to its closing     *)
(* quote, with text left after it.                                         *)
C9_Witness ==
  /\ StringCall /\ res.matched /\ res.kind = "STRING_EXTERNAL"
  /\ \E q \in (res.start + 1)..(res.end - 3) :
       src[q] = CP.backslash /\ src[q + 1] = CP.dquote
  /\ res.end <= Len(src)

(* C10.  Determinism: the outcome of a call depends on the remaining text  *)
(* and the candidate set only.  Two lexers at one position that are given  *)
(* one candidate set return the same answer, the same kind and the same    *)
(* span, and are left at the same position, whatever each of them scanned  *)
(* before.                                                                 *)
SameCall ==
  /\ IsCall /\ res2.from > 0
  /\ res.from = res2.from /\ res.valid = res2.valid
C10_Deterministic ==
  SameCall
  => ( /\ res.matched = res2.matched
       /\ res.start = res2.start /\ res.end = res2.end
       /\ pos = pos2
       /\ res.matched => res.kind = res2.kind /\ result_symbol = result_symbol2 )

(* The two lexers returned a token at one position although they came to   *)
(* the call with different values of result_symbol.                        *)
C10_Witness ==
  /\ SameCall /\ res.matched /\ res2.matched
  /\ res.rs # res2.rs

-----------------------------------------------------------------------------
(* The positions of a returned token, and whether it is a plain decimal    *)
(* literal (no hex prefix and no radix marker in it).                      *)
Span == res.start..(res.end - 1)
IsNumberToken == IsCall /\ res.matched /\ res.kind = "NUMBER"
PlainDecimal == \A q \in Span : src[q] \notin { CP.x, CP.X, CP.r, CP.R }

(* C14.  In a token returned as Number, a suffix N or M stands after at    *)
(* least one digit and directly before a number boundary, so 1N2 and 1M5   *)
(* are not returned as Number.  (The code accepts N and M anywhere.)       *)
C14_SuffixEndsNumber ==
  (IsNumberToken /\ PlainDecimal)
  => \A q \in Span :
       src[q] \in { CP.N, CP.M }
       => /\ \E r \in res.start..(q - 1) : AsciiDigit(src[r])
          /\ DocNumberBoundary(lookahead(q + 1))

(* C15.  In a token returned as Number, a + or - past the literal's first  *)
(* code point stands directly after e or E, so 1+2 and 12- are not         *)
(* returned as Number.  (The code accepts a sign anywhere.)                *)
C15_SignOnlyAfterExponent ==
  IsNumberToken
  => \A q \in Span :
       (q > res.start /\ src[q] \in { CP.plus, CP.minus })
       => src[q - 1] \in { CP.e, CP.E }


(* C16.  The number boundary is stricter than the token boundary: a token  *)
(* returned as Number ends directly before the first whitespace, end of    *)
(* input or macro character, the characters # and quote and : included,    *)
(* so a digit run before one of these is the Number; a Symbol or Keyword   *)
(* does not end before one of these three.                                 *)
DigitRunCall ==
  /\ IsCall /\ "NUMBER" \in res.valid
  /\ AllDigits(Text(res.start, NumberBoundaryFrom(res.start)))
C16_NumberBoundaryStricter ==
  /\ IsNumberToken => res.end = NumberBoundaryFrom(res.start)
  /\ DigitRunCall => IsNumberToken
  /\ (IsCall /\ res.matched /\ res.kind \in { "SYMBOL", "KEYWORD" })
     => lookahead(res.end) \notin DocNonTerminating
C16_Witness ==
  /\ DigitRunCall /\ IsNumberToken
  /\ lookahead(res.end) \in DocNonTerminating


(* C17.  The character sub-scanner is total: a call whose first            *)
(* non-whitespace code point is a backslash, with Character or             *)
(* ErroneousCharacter requested, returns one of the two kinds; it returns  *)
(* ErroneousCharacter over the backslash alone when the input ends there,  *)
(* and otherwise its token holds the code point after the backslash,       *)
(* whatever that code point is.                                            *)
BackslashCall ==
  /\ IsCall /\ lookahead(DocStart) = CP.backslash
  /\ "CHARACTER_EXTERNAL" \in res.valid \/ "ERRONEOUS_CHARACTER" \in res.valid
C17_CharacterScanTotal ==
  BackslashCall
  => /\ res.matched
     /\ res.kind \in { "CHARACTER_EXTERNAL", "ERRONEOUS_CHARACTER" }
     /\ res.start = DocStart
     /\ IF lookahead(DocStart + 1) = 0
        THEN res.kind = "ERRONEOUS_CHARACTER" /\ res.end = DocStart + 1
        ELSE res.end >= DocStart + 2
C17_Witness ==
  /\ BackslashCall /\ res.matched
  /\ DocTokenBoundary(lookahead(DocStart + 1)) /\ lookahead(DocStart + 1) # 0
  /\ res.end = DocStart + 2


(* C18.  Termination and progress: a call advances the lexer at most as    *)
(* many times as there are code points left in the input, so it never      *)
(* advances at the end of input; and a call that returns a token has       *)
(* consumed at least one code point, the first of which is not whitespace. *)
C18_TerminationAndProgress ==
  IsCall
  => /\ res.from <= res.start /\ res.start <= res.end
     /\ res.end - res.from <= (Len(src) + 1) - res.from
     /\ res.matched
        => /\ res.end > res.start
           /\ res.start <= Len(src)
           /\ src[res.start] \notin DocWhitespace
C18_Witness ==
  /\ IsCall /\ res.matched
  /\ res.from < res.start
  /\ res.end = Len(src) + 1


(* C19.  Whitespace handling does not depend on the candidate set: every   *)
(* call, the one with the empty candidate set included, first skips the    *)
(* whole run of whitespace of the documentation's table (comma and the     *)
(* Unicode spaces included); when the input ends after the run the call    *)
(* reports NoMatch and advances no further; and a returned token starts    *)
(* after the run, so no skipped code point is in its span.                 *)
C19_WhitespaceSkippedFirst ==
  IsCall
  => /\ res.start = DocStart
     /\ lookahead(DocStart) = 0 => (~res.matched /\ res.end = DocStart)
     /\ res.matched
        => \A q \in Span : q >= DocStart /\ (q = res.start => src[q] \notin DocWhitespace)
C19_Witness ==
  /\ IsCall /\ res.valid = {}
  /\ res.start > res.from + 1
  /\ \E q \in res.from..(res.start - 1) : src[q] = CP.comma
  /\ \E q \in res.from..(res.start - 1) : src[q] > 255


(* C20.  Sign invariance: where Number is requested and the token starts   *)
(* with + or - and a digit, the call returns Number exactly when a call at *)
(* the digit, on the body alone, returns Number, and its span is the sign  *)
(* and the body's span; so -0x1F is a Number.  (The code does not read a   *)
(* hex prefix after a sign.)                                               *)
SignedDigitCall ==
  /\ IsCall /\ "NUMBER" \in res.valid
  /\ First \in { CP.plus, CP.minus }
  /\ AsciiDigit(lookahead(res.start + 1))
BodyAlone == scan(res.start + 1, res.valid, res.rs)
C20_SignInvariance ==
  SignedDigitCall
  => /\ IsNumberToken <=> (BodyAlone.matched /\ BodyAlone.kind = "NUMBER")
     /\ IsNumberToken => res.end = BodyAlone.end


-----------------------------------------------------------------------------
(* What the properties of the grammar speak of.                            *)

ChildrenOf(nd) == nd.head \o nd.kids \o nd.target
Range(s) == { s[j] : j \in 1..Len(s) }
(* The nodes of the tree under nd, nd included.                            *)
RECURSIVE NodesUnder(_)
NodesUnder(nd) ==
  { nd } \cup UNION { NodesUnder(c) : c \in Range(ChildrenOf(nd)) }
AllNodes == UNION { NodesUnder(nd) : nd \in Range(tree) }
(* The token indexes of the tokens under nd that are nodes of their own.   *)
Leaves(nd) == { m.at : m \in { x \in NodesUnder(nd) : x.type \in AtomTokens } }
Parsed == pstatus # "parsing"
Accepted == pstatus = "accepted"

(* C11.  Discard chains: a text of k discard markers and then n >= k       *)
(* forms is accepted; its first top-level form is one Discard that holds   *)
(* the k markers' Discard nodes and exactly the first k forms, and the     *)
(* n - k forms left follow it as live forms, in order.  So #_ #_ 1 2 3 has *)
(* the top-level forms Discard and 3, with 1 and 2 under the Discard.      *)
IsChain(k, n) == toks = RunOf("#_", k) \o RunOf("number", n)
C11_DiscardChain ==
  \A k \in 1..Len(toks) : \A n \in k..Len(toks) :
    (Parsed /\ IsChain(k, n))
    => /\ Accepted
       /\ Len(tree) = 1 + (n - k)
       /\ tree[1].type = "discard"
       /\ Leaves(tree[1]) = (k + 1)..(2 * k)
       /\ Cardinality({ x \in NodesUnder(tree[1]) : x.type = "discard" }) = k
       /\ \A j \in 1..(n - k) : tree[1 + j] = Node("number", 2 * k + j)
C11_Witness ==
  /\ Accepted
  /\ IsChain(2, 3)
  /\ tree[2] = Node("number", 5)


(* C12.  Mandatory target after discards: in an accepted text every        *)
(* WithMetadata, quote, syntax-quote, unquote, unquote-splicing, deref,    *)
(* var-quote, tagged-literal and Discard node has exactly one target, a    *)
(* form that is not a Discard, after the Discards it has absorbed; none is *)
(* complete without a target.  (The grammar makes the target of a          *)
(* WithMetadata optional.)                                                 *)
C12_MandatoryTarget ==
  Accepted
  => \A nd \in AllNodes :
       nd.type \in TargetTypes
       => /\ Len(nd.target) = 1
          /\ \A c \in Range(nd.target) : c.type # "discard"
          /\ \A c \in Range(nd.kids) : c.type = "discard"


(* C13.  Map pairing: a map literal of an accepted text is a whole number  *)
(* of pairs of a key and a value, so the count of its forms is even; a map *)
(* of m forms is accepted exactly when m is even.                          *)
FormCount(nd) ==
  Cardinality({ p \in (1..Len(nd.kids)) \X (1..2) :
                  p[2] <= IF nd.kids[p[1]].type = "pair"
                          THEN Len(nd.kids[p[1]].kids) ELSE 1 })
IsMapOf(m) == toks = <<"{">> \o RunOf("number", m) \o <<"}">>
C13_MapPairing ==
  /\ Accepted
     => \A nd \in AllNodes :
          nd.type = "map_literal"
          => /\ FormCount(nd) % 2 = 0
             /\ \A c \in Range(nd.kids) :
                  /\ c.type = "pair" /\ Len(c.kids) = 2
                  /\ \A f \in Range(c.kids) : f.type \in FormTypes
  /\ \A m \in 0..Len(toks) :
       (Parsed /\ IsMapOf(m)) => (Accepted <=> m % 2 = 0)
C13_Witness ==
  /\ Accepted /\ IsMapOf(4)
  /\ Len(tree) = 1 /\ Len(tree[1].kids) = 2 /\ FormCount(tree[1]) = 4


(* C21.  A token ends on a boundary: after a call that returns Symbol,     *)
(* Keyword, NilLiteral, True, False, Character or ErroneousCharacter the   *)
(* lexer's next code point is a token boundary, and after a call that      *)
(* returns Number it is a number boundary, for character runs longer than  *)
(* the name buffer too.  (The code stops a character run at the cap of     *)
(* its buffer.)                                                            *)
BoundedKinds ==
  { "SYMBOL", "KEYWORD", "NIL_LITERAL", "BOOL_TRUE", "BOOL_FALSE",
    "CHARACTER_EXTERNAL", "ERRONEOUS_CHARACTER" }
RunEnd == TokenBoundaryFrom(DocStart + 2)
WideRunCall ==
  /\ BackslashCall
  /\ lookahead(DocStart + 1) # 0
  /\ RunEnd > DocStart + 2
  /\ \E q \in (DocStart + 1)..(RunEnd - 1) : src[q] >= 256
C22_NoNarrowingAlias ==
  WideRunCall => (res.matched /\ res.kind = "ERRONEOUS_CHARACTER")


(* C23.  Discards do not occupy the slots of a map: in an accepted text a  *)
(* map literal has an even number of forms that are not Discards, and the  *)
(* key and the value of each of its pairs are forms that are not Discards; *)
(* so a map of one discarded form and then a key and a value is accepted   *)
(* as a map of one pair.  (The grammar lets a Discard be a key or a        *)
(* value.)                                                                 *)
LiveForms(nd) ==
  { p \in (1..Len(nd.kids)) \X (1..2) :
      /\ p[2] <= Len(nd.kids[p[1]].kids)
      /\ nd.kids[p[1]].kids[p[2]].type # "discard" }
DiscardThenPair == toks = <<"{", "#_", "symbol", "keyword", "number", "}">>
====
